---------------------------- MODULE Spec2Model ----------------------------
(***************************************************************************)
(* The codec layer of thousand-curses (src/codec.py): seven codecs between *)
(* byte buffers and unicode text, the transliteration table loaded at      *)
(* import, and the name-to-codec registry.                                 *)
(*                                                                         *)
(* A byte buffer is a sequence of integers in 0..255.  A text is a         *)
(* sequence of unicode code points (integers), so that chr(b) is the code  *)
(* point b and chr(256 + b) is the code point 256 + b.                     *)
(***************************************************************************)
EXTENDS Integers, Sequences, FiniteSets, TLC

VARIABLES table, names, call

vars == <<table, names, call>>

(***************************************************************************)
(* Bounds of the model.                                                    *)
(***************************************************************************)
\* longest byte buffer built from SampleBytes
MaxLen == 4

(***************************************************************************)
(* Characters.                                                             *)
(***************************************************************************)
Byte == 0..255

\* ord() of the characters the model writes literally.
Ord == [c \in {"0", "1", "2", "3", "4", "5", "6", "7", "8", "9",
               "A", "B", "C", "D", "E", "F", "G", "X",
               "a", "b", "c", "d", "e", "f", "x",
               " ", "+", "-", "_", "\t"} |->
          CASE c = "\t" -> 9
            [] c = " " -> 32
            [] c = "+" -> 43
            [] c = "-" -> 45
            [] c = "_" -> 95
            [] c = "0" -> 48 [] c = "1" -> 49 [] c = "2" -> 50 [] c = "3" -> 51
            [] c = "4" -> 52 [] c = "5" -> 53 [] c = "6" -> 54 [] c = "7" -> 55
            [] c = "8" -> 56 [] c = "9" -> 57
            [] c = "A" -> 65 [] c = "B" -> 66 [] c = "C" -> 67 [] c = "D" -> 68
            [] c = "E" -> 69 [] c = "F" -> 70 [] c = "G" -> 71 [] c = "X" -> 88
            [] c = "a" -> 97 [] c = "b" -> 98 [] c = "c" -> 99 [] c = "d" -> 100
            [] c = "e" -> 101 [] c = "f" -> 102 [] c = "x" -> 120]

\* A text literal: the code points of a sequence of one-character strings.
Str(cs) == [i \in 1..Len(cs) |-> Ord[cs[i]]]

\* "".join(parts): the concatenation of a sequence of texts.
RECURSIVE Concat(_)
Concat(parts) ==
    IF parts = <<>> THEN <<>> ELSE Head(parts) \o Concat(Tail(parts))

\* sep.join(parts)
RECURSIVE Join(_, _)
Join(sep, parts) ==
    IF parts = <<>> THEN <<>>
    ELSE IF Len(parts) = 1 THEN Head(parts)
    ELSE Head(parts) \o sep \o Join(sep, Tail(parts))

(***************************************************************************)
(* Outcomes of a call: a value, or the exception that left the call.       *)
(***************************************************************************)
Ok(v) == [ok |-> TRUE, val |-> v, err |-> "none"]

Raise(e) == [ok |-> FALSE, val |-> <<>>, err |-> e]

(***************************************************************************)
(* Python built-ins the codecs use.                                        *)
(***************************************************************************)
\* str.isspace() on the ASCII range: what str.split() splits on and int()
\* strips.
IsSpace(c) == c \in {9, 10, 11, 12, 13, 32}

\* chr(b).isprintable() for b in 0..255: the controls 0..31 and 127..159, the
\* no-break space 160 and the soft hyphen 173 are not printable.
IsPrintable(c) == ~(c \in 0..31 \/ c \in 127..160 \/ c = 173)

\* str.upper() on one character of the ASCII range
UpperChar(c) == IF c \in 97..122 THEN c - 32 ELSE c

\* str.upper()
Upper(s) == [i \in 1..Len(s) |-> UpperChar(s[i])]

\* hex(n)[2:] : the lowercase hexadecimal digits of n >= 0, no padding
HexDigitChar(d) == IF d < 10 THEN 48 + d ELSE 97 + (d - 10)

RECURSIVE HexOf(_)
HexOf(n) ==
    IF n < 16 THEN <<HexDigitChar(n)>>
    ELSE HexOf(n \div 16) \o <<HexDigitChar(n % 16)>>

\* s[-k:] : the last k characters of s (all of s when it is shorter)
LastChars(s, k) ==
    IF Len(s) <= k THEN s ELSE SubSeq(s, Len(s) - k + 1, Len(s))

\* s[i:i+2] with i counted from 0: at most two characters from offset i
Window(s, i) ==
    SubSeq(s, i + 1, IF i + 2 <= Len(s) THEN i + 2 ELSE Len(s))

\* s.strip()
RECURSIVE LStrip(_)
LStrip(s) ==
    IF s # <<>> /\ IsSpace(Head(s)) THEN LStrip(Tail(s)) ELSE s

RECURSIVE RStrip(_)
RStrip(s) ==
    IF s # <<>> /\ IsSpace(s[Len(s)]) THEN RStrip(SubSeq(s, 1, Len(s) - 1))
    ELSE s

Strip(s) == RStrip(LStrip(s))

\* s.split(): the maximal runs of non-whitespace characters, in order.
RECURSIVE SplitFrom(_, _)
SplitFrom(s, cur) ==
    IF s = <<>> THEN (IF cur = <<>> THEN <<>> ELSE <<cur>>)
    ELSE IF IsSpace(Head(s))
         THEN (IF cur = <<>> THEN <<>> ELSE <<cur>>) \o SplitFrom(Tail(s), <<>>)
         ELSE SplitFrom(Tail(s), Append(cur, Head(s)))

Split(s) == SplitFrom(s, <<>>)

\* The value of one base-16 digit, -1 for any other character.
DigitValue(c) ==
    IF c \in 48..57 THEN c - 48
    ELSE IF c \in 65..70 THEN c - 55
    ELSE IF c \in 97..102 THEN c - 87
    ELSE -1

IsDigit(c) == DigitValue(c) >= 0

\* The digits part of an int() literal: digits with single underscores
\* between them.
DigitsOk(d) ==
    /\ d # <<>>
    /\ IsDigit(d[1])
    /\ IsDigit(d[Len(d)])
    /\ \A i \in 1..Len(d) : IsDigit(d[i]) \/ d[i] = 95
    /\ \A i \in 1..(Len(d) - 1) : ~(d[i] = 95 /\ d[i + 1] = 95)

RECURSIVE DigitsValue(_, _)
DigitsValue(d, acc) ==
    IF d = <<>> THEN acc
    ELSE IF Head(d) = 95 THEN DigitsValue(Tail(d), acc)
    ELSE DigitsValue(Tail(d), 16 * acc + DigitValue(Head(d)))

\* int(s, base=16): surrounding whitespace stripped, an optional sign, an
\* optional 0x / 0X prefix (one underscore may follow it), then the digits.
\* Raises ValueError on anything else.
IntBase16(s) ==
    LET t == Strip(s)
        signed == t # <<>> /\ t[1] \in {43, 45}
        u == IF signed THEN Tail(t) ELSE t
        prefixed == Len(u) >= 2 /\ u[1] = 48 /\ u[2] \in {88, 120}
        v == IF prefixed THEN Tail(Tail(u)) ELSE u
        d == IF prefixed /\ v # <<>> /\ v[1] = 95 THEN Tail(v) ELSE v
        n == DigitsValue(d, 0)
    IN  IF DigitsOk(d)
        THEN Ok(IF signed /\ t[1] = 45 THEN 0 - n ELSE n)
        ELSE Raise("ValueError")

\* bytes([f(x) for x in xs]) where f(x) is an outcome holding an integer: the
\* first exception of the comprehension leaves the call; bytes() raises
\* ValueError on a value outside range(0, 256).
BytesOf(outcomes) ==
    IF \E i \in 1..Len(outcomes) : ~outcomes[i].ok
    THEN Raise((outcomes[CHOOSE i \in 1..Len(outcomes) :
                    /\ ~outcomes[i].ok
                    /\ \A j \in 1..(i - 1) : outcomes[j].ok]).err)
    ELSE IF \E i \in 1..Len(outcomes) : outcomes[i].val \notin Byte
    THEN Raise("ValueError")
    ELSE Ok([i \in 1..Len(outcomes) |-> outcomes[i].val])

(***************************************************************************)
(* The codecs.  Each is the class method of the same name.                 *)
(***************************************************************************)
\* Codec.encode with a body that returns instead of raising.
Codec_encode_pass(cls, s) == Ok(<<>>)

\* Codec.encode, the method a class inherits when it defines no encode of
\* its own.
Codec_encode(cls, s) == Raise("NotImplementedError")

\* Hexify.encode: one window s[i:i+2] for every index i of range(len(s)).
Hexify_encode(s) ==
    BytesOf([k \in 1..Len(s) |-> IntBase16(Window(s, k - 1))])

\* Hexify.decode without the "0" padding.
HexPair_nopad(n) == Upper(HexOf(n))

\* The two characters Hexify.decode writes for one byte.
HexPair(n) == Upper(LastChars(Str(<<"0">>) \o HexOf(n), 2))

Hexify_decode(bytestr) ==
    Ok(Concat([k \in 1..Len(bytestr) |-> HexPair(bytestr[k])]))

\* HexifySpaces.encode that drops the tokens int() or bytes() refuses.
HexifySpaces_encode_skip(s) ==
    LET toks == Split(s)
        good == SelectSeq([k \in 1..Len(toks) |-> IntBase16(toks[k])],
                          LAMBDA o : o.ok /\ o.val \in Byte)
    IN  Ok([k \in 1..Len(good) |-> good[k].val])

\* HexifySpaces.encode: one int() for every whitespace-separated token.
HexifySpaces_encode(s) ==
    LET toks == Split(s)
    IN  BytesOf([k \in 1..Len(toks) |-> IntBase16(toks[k])])

\* HexifySpaces.decode joining on the empty string.
HexifySpaces_decode_nosep(bytestr) ==
    Ok(Join(<<>>,
            [k \in 1..Len(bytestr) |-> Hexify_decode(<<bytestr[k]>>).val]))

HexifySpaces_decode(bytestr) ==
    Ok(Join(Str(<<" ">>),
            [k \in 1..Len(bytestr) |-> Hexify_decode(<<bytestr[k]>>).val]))

ASCII_decode(bytestr) == Ok(bytestr)

\* replacements starting at 2**7.
Replacement_half(b) == 128 + b

\* replacements = list(range(2**8, 2**9)); replacements[b]
Replacement(b) == 256 + b

\* MonospaceASCIIByte.decode reads bytestr[0] only: IndexError on b"".
MonospaceASCIIByte_decode(bytestr) ==
    IF bytestr = <<>> THEN Raise("IndexError")
    ELSE LET b == bytestr[1]
         IN  IF ~IsPrintable(b) THEN Ok(<<Replacement(b)>>) ELSE Ok(<<b>>)

MonospaceASCII_decode(bytestr) ==
    Ok(Concat([k \in 1..Len(bytestr) |->
                   MonospaceASCIIByte_decode(<<bytestr[k]>>).val]))

\* MajinTenseiIIByte.decode with transliter.get(bytestr[0], "").
MajinTenseiIIByte_decode_get(transliter, bytestr) ==
    IF bytestr = <<>> THEN Raise("IndexError")
    ELSE IF bytestr[1] \notin DOMAIN transliter THEN Ok(<<>>)
    ELSE Ok(transliter[bytestr[1]])

\* MajinTenseiIIByte.decode: transliter[bytestr[0]], KeyError on a byte the
\* table has no entry for, IndexError on b"".
MajinTenseiIIByte_decode(transliter, bytestr) ==
    IF bytestr = <<>> THEN Raise("IndexError")
    ELSE IF bytestr[1] \notin DOMAIN transliter THEN Raise("KeyError")
    ELSE Ok(transliter[bytestr[1]])

\* bytestr[1::2], the bytes at the odd indices 1, 3, 5, ...
OddBytes(bytestr) == [k \in 1..(Len(bytestr) \div 2) |-> bytestr[2 * k]]

\* bytestr[::2], the bytes at the even indices 0, 2, 4, ...
EvenBytes(bytestr) ==
    [k \in 1..((Len(bytestr) + 1) \div 2) |-> bytestr[2 * k - 1]]

\* Mt2GarbageTextPair.decode returning text+garbage.
Mt2GarbageTextPair_decode_textfirst(transliter, bytestr) ==
    LET odd == [k \in 1..(Len(bytestr) \div 2) |-> bytestr[2 * k]]
        even == [k \in 1..((Len(bytestr) + 1) \div 2) |-> bytestr[2 * k - 1]]
        garbage == Concat([k \in 1..Len(odd) |->
                               MonospaceASCIIByte_decode(<<odd[k]>>).val])
        parts == [k \in 1..Len(even) |->
                      MajinTenseiIIByte_decode(transliter, <<even[k]>>)]
    IN  IF \E k \in 1..Len(parts) : ~parts[k].ok
        THEN Raise("KeyError")
        ELSE Ok(Concat([k \in 1..Len(parts) |-> parts[k].val]) \o garbage)

\* Mt2GarbageTextPair.decode: the garbage string is built first, then the
\* text string; the first byte without a table entry raises KeyError.
Mt2GarbageTextPair_decode(transliter, bytestr) ==
    LET odd == OddBytes(bytestr)
        even == EvenBytes(bytestr)
        garbage == Concat([k \in 1..Len(odd) |->
                               MonospaceASCIIByte_decode(<<odd[k]>>).val])
        parts == [k \in 1..Len(even) |->
                      MajinTenseiIIByte_decode(transliter, <<even[k]>>)]
    IN  IF \E k \in 1..Len(parts) : ~parts[k].ok
        THEN Raise("KeyError")
        ELSE Ok(garbage \o Concat([k \in 1..Len(parts) |-> parts[k].val]))

(***************************************************************************)
(* The classes, the registry and the transliteration table.                *)
(***************************************************************************)
CodecNames == {"Hexify", "HexifySpaces", "ASCII", "MonospaceASCIIByte",
               "MonospaceASCII", "MajinTenseiIIByte", "Mt2GarbageTextPair"}

\* The methods each class body defines itself; the others come from Codec.
Defines(cls) ==
    CASE cls = "Hexify" -> {"encode", "decode"}
      [] cls = "HexifySpaces" -> {"encode", "decode"}
      [] cls = "ASCII" -> {"decode"}
      [] cls = "MonospaceASCIIByte" -> {"decode"}
      [] cls = "MonospaceASCII" -> {"decode"}
      [] cls = "MajinTenseiIIByte" -> {"decode"}
      [] cls = "Mt2GarbageTextPair" -> {"decode"}

\* names: the registry, from a codec's name to its class.
Registry == [n \in CodecNames |-> n]

\* read_yaml: the mapping the document holds, whatever keys it has.
read_yaml(doc) == doc

\* The class whose body supplies cls.op: the class itself, else Codec.
Resolve(cls, op) == IF op \in Defines(cls) THEN cls ELSE "Codec"

(***************************************************************************)
(* Inputs.                                                                 *)
(***************************************************************************)
\* A line feed (unprintable, hex 0A) and "A" (printable, hex 41).
SampleBytes == {10, 65}

SeqsUpTo(S, n) == UNION {[1..k -> S] : k \in 0..n}

\* Every buffer of SampleBytes up to MaxLen.
Buffers == SeqsUpTo(SampleBytes, MaxLen)

\* Every one-byte buffer as well.
ByteBuffers == {<<b>> : b \in Byte} \cup Buffers

\* hexmap.yaml documents: one with an entry for two bytes only (the entry of
\* "A" two code points long, no entry for the line feed), one with an entry
\* for every byte.
HexmapDocuments ==
    { (65 :> <<12363, 12441>>) @@ (173 :> <<12354>>),
      [b \in Byte |-> <<12448 + b>>] }

\* Texts an editor may hand to an encoder: tokens of two digits, one
\* lowercase digit, no hex digit, three digits of value 1, three digits of
\* value 256, four digits, signed, prefixed, underscored; several tokens; and
\* leading, trailing and repeated whitespace.
Texts ==
    { <<>>,
      Str(<<"0", "A">>),
      Str(<<"f">>),
      Str(<<"G">>),
      Str(<<"0", "0", "1">>),
      Str(<<"1", "0", "0">>),
      Str(<<"0", "A", "4", "1">>),
      Str(<<"+", "1">>),
      Str(<<"-", "1">>),
      Str(<<"-", "0">>),
      Str(<<"0", "x", "1">>),
      Str(<<"1", "_", "0">>),
      Str(<<"0", "x">>),
      Str(<<"0", "A", " ", "f">>),
      Str(<<"0", "A", " ", "G">>),
      Str(<<"G", " ", "0", "A">>),
      Str(<<"0", "A", " ", "1", "0", "0">>),
      Str(<<"0", "A", " ", "-", "1">>),
      Str(<<"0", "0", "1", " ", "0", "x", "1">>),
      Str(<<"+", "1", " ", "F", "F">>),
      Str(<<"4", "1", " ", "0", "A", " ", "A", "D">>),
      Str(<<" ", "0", "A", "\t", " ", "f", " ">>) }

\* What the encoder of class cls may be handed: a text of Texts, or the text
\* the previous call decoded with the same class.
EncodeInputs(cls) ==
    Texts \cup (IF call.codec = cls /\ call.op = "decode" /\ call.res.ok
                THEN {call.res.val} ELSE {})

(***************************************************************************)
(* The state machine: the module after import, then one call at a time.    *)
(***************************************************************************)
NoCall == [codec |-> "none", op |-> "none", arg |-> <<>>, res |-> Ok(<<>>)]

Called(cls, op, arg, res) ==
    [codec |-> cls, op |-> op, arg |-> arg, res |-> res]

Init ==
    /\ table \in {read_yaml(doc) : doc \in HexmapDocuments}
    /\ names = Registry
    /\ call = NoCall

CallHexifyEncode(s) ==
    /\ Resolve(names["Hexify"], "encode") = "Hexify"
    /\ call' = Called(names["Hexify"], "encode", s, Hexify_encode(s))
    /\ UNCHANGED <<table, names>>

CallHexifyDecode(bytestr) ==
    /\ Resolve(names["Hexify"], "decode") = "Hexify"
    /\ call' = Called(names["Hexify"], "decode", bytestr,
                      Hexify_decode(bytestr))
    /\ UNCHANGED <<table, names>>

CallHexifySpacesEncode(s) ==
    /\ Resolve(names["HexifySpaces"], "encode") = "HexifySpaces"
    /\ call' = Called(names["HexifySpaces"], "encode", s,
                      HexifySpaces_encode(s))
    /\ UNCHANGED <<table, names>>

CallHexifySpacesDecode(bytestr) ==
    /\ Resolve(names["HexifySpaces"], "decode") = "HexifySpaces"
    /\ call' = Called(names["HexifySpaces"], "decode", bytestr,
                      HexifySpaces_decode(bytestr))
    /\ UNCHANGED <<table, names>>

CallASCIIDecode(bytestr) ==
    /\ Resolve(names["ASCII"], "decode") = "ASCII"
    /\ call' = Called(names["ASCII"], "decode", bytestr, ASCII_decode(bytestr))
    /\ UNCHANGED <<table, names>>

CallMonospaceASCIIByteDecode(bytestr) ==
    /\ Resolve(names["MonospaceASCIIByte"], "decode") = "MonospaceASCIIByte"
    /\ call' = Called(names["MonospaceASCIIByte"], "decode", bytestr,
                      MonospaceASCIIByte_decode(bytestr))
    /\ UNCHANGED <<table, names>>

CallMonospaceASCIIDecode(bytestr) ==
    /\ Resolve(names["MonospaceASCII"], "decode") = "MonospaceASCII"
    /\ call' = Called(names["MonospaceASCII"], "decode", bytestr,
                      MonospaceASCII_decode(bytestr))
    /\ UNCHANGED <<table, names>>

\* MajinTenseiIIByte.decode with transliter.setdefault(bytestr[0], ""): a
\* missing byte is given an empty entry.
CallMajinTenseiIIByteDecode_setdefault(bytestr) ==
    /\ Resolve(names["MajinTenseiIIByte"], "decode") = "MajinTenseiIIByte"
    /\ call' = Called(names["MajinTenseiIIByte"], "decode", bytestr,
                      MajinTenseiIIByte_decode_get(table, bytestr))
    /\ table' = IF bytestr # <<>> /\ bytestr[1] \notin DOMAIN table
                THEN (bytestr[1] :> <<>>) @@ table ELSE table
    /\ UNCHANGED names

CallMajinTenseiIIByteDecode(bytestr) ==
    /\ Resolve(names["MajinTenseiIIByte"], "decode") = "MajinTenseiIIByte"
    /\ call' = Called(names["MajinTenseiIIByte"], "decode", bytestr,
                      MajinTenseiIIByte_decode(table, bytestr))
    /\ UNCHANGED <<table, names>>

CallMt2GarbageTextPairDecode(bytestr) ==
    /\ Resolve(names["Mt2GarbageTextPair"], "decode") = "Mt2GarbageTextPair"
    /\ call' = Called(names["Mt2GarbageTextPair"], "decode", bytestr,
                      Mt2GarbageTextPair_decode(table, bytestr))
    /\ UNCHANGED <<table, names>>

\* encode on a class that inherits it from Codec
CallCodecEncode(n, s) ==
    /\ Resolve(names[n], "encode") = "Codec"
    /\ call' = Called(names[n], "encode", s, Codec_encode(names[n], s))
    /\ UNCHANGED <<table, names>>

Next ==
    \/ \E s \in EncodeInputs(names["Hexify"]) : CallHexifyEncode(s)
    \/ \E bytestr \in Buffers : CallHexifyDecode(bytestr)
    \/ \E s \in EncodeInputs(names["HexifySpaces"]) : CallHexifySpacesEncode(s)
    \/ \E bytestr \in Buffers : CallHexifySpacesDecode(bytestr)
    \/ \E bytestr \in Buffers : CallASCIIDecode(bytestr)
    \/ \E bytestr \in Buffers : CallMonospaceASCIIByteDecode(bytestr)
    \/ \E bytestr \in Buffers : CallMonospaceASCIIDecode(bytestr)
    \/ \E bytestr \in Buffers : CallMajinTenseiIIByteDecode(bytestr)
    \/ \E bytestr \in Buffers : CallMt2GarbageTextPairDecode(bytestr)
    \/ \E n \in DOMAIN names :
           \E s \in EncodeInputs(names[n]) : CallCodecEncode(n, s)

Spec == Init /\ [][Next]_vars

\* The byte-level codecs over every byte value.
NextByte ==
    \/ \E s \in EncodeInputs(names["Hexify"]) : CallHexifyEncode(s)
    \/ \E bytestr \in ByteBuffers : CallHexifyDecode(bytestr)
    \/ \E bytestr \in ByteBuffers : CallMonospaceASCIIByteDecode(bytestr)
    \/ \E bytestr \in ByteBuffers : CallMajinTenseiIIByteDecode(bytestr)

SpecByte == Init /\ [][NextByte]_vars

(***************************************************************************)
(* Helpers of the properties.                                              *)
(***************************************************************************)
IsCall(cls, op) == call.codec = cls /\ call.op = op

\* The elements of a at positions first, first + 2, first + 4, ...
RECURSIVE Channel(_, _)
Channel(a, first) ==
    IF first > Len(a) THEN <<>> ELSE <<a[first]>> \o Channel(a, first + 2)

\* A non-empty run of base-16 digits.
PlainHex(t) == t # <<>> /\ \A i \in 1..Len(t) : DigitValue(t[i]) >= 0

\* The number a run of base-16 digits writes.
RECURSIVE HexNumber(_)
HexNumber(t) ==
    IF t = <<>> THEN 0
    ELSE 16 * HexNumber(SubSeq(t, 1, Len(t) - 1)) + DigitValue(t[Len(t)])

\* An uppercase base-16 digit character.
IsUpperHexChar(c) == c \in 48..57 \/ c \in 65..70

(***************************************************************************)
(* C1: Hexify round trip.  For every byte b, Hexify.encode of the text     *)
(* Hexify.decode([b]) produced is the one-byte buffer [b].                 *)
(***************************************************************************)
C1_HexifyRoundTrip ==
    [][ ( /\ IsCall("Hexify", "decode")
          /\ Len(call.arg) = 1
          /\ call'.codec = "Hexify"
          /\ call'.op = "encode"
          /\ call'.arg = call.res.val )
        => call'.res = Ok(call.arg) ]_vars

(***************************************************************************)
(* C2: Hexify.encode reads an even-length text of hex digits in            *)
(* non-overlapping pairs at offsets 0, 2, 4, ... and returns one byte per  *)
(* pair, so the output is half as long as the input.                       *)
(***************************************************************************)
C2_HexifyEncodePairs ==
    ( /\ IsCall("Hexify", "encode")
      /\ Len(call.arg) % 2 = 0
      /\ \A i \in 1..Len(call.arg) : DigitValue(call.arg[i]) >= 0 )
    => /\ call.res.ok
       /\ Len(call.res.val) = Len(call.arg) \div 2
       /\ \A k \in 1..Len(call.res.val) :
              call.res.val[k] = 16 * DigitValue(call.arg[2 * k - 1])
                                 + DigitValue(call.arg[2 * k])

(***************************************************************************)
(* C3: HexifySpaces round trip.  For every byte sequence bs, the empty one *)
(* included, HexifySpaces.encode of the text HexifySpaces.decode(bs)       *)
(* produced is bs again.                                                   *)
(***************************************************************************)
C3_HexifySpacesRoundTrip ==
    [][ ( /\ IsCall("HexifySpaces", "decode")
          /\ call'.codec = "HexifySpaces"
          /\ call'.op = "encode"
          /\ call'.arg = call.res.val )
        => call'.res = Ok(call.arg) ]_vars

\* An encode has returned several bytes from a text of two-character groups
\* separated by single spaces.
C3_Witness ==
    /\ IsCall("HexifySpaces", "encode")
    /\ call.res.ok
    /\ Len(call.res.val) >= 2
    /\ Len(call.arg) = 3 * Len(call.res.val) - 1
    /\ \A i \in 1..Len(call.arg) : (call.arg[i] = 32) <=> (i % 3 = 0)

(***************************************************************************)
(* C4: Mt2GarbageTextPair.decode of a buffer whose even-index bytes all    *)
(* have table entries is MonospaceASCII.decode of the bytes at the odd     *)
(* indices 1, 3, 5, ... followed by the table entries of the bytes at the  *)
(* even indices 0, 2, 4, ..., each channel in buffer order, for every      *)
(* length, odd lengths included, with no error.                            *)
(***************************************************************************)
C4_DualChannelDecode ==
    LET a == call.arg
        text == Channel(a, 1)
        garbage == Channel(a, 2)
    IN  ( /\ IsCall("Mt2GarbageTextPair", "decode")
          /\ \A k \in 1..Len(text) : text[k] \in DOMAIN table )
        => call.res =
             Ok(MonospaceASCII_decode(garbage).val
                  \o Concat([k \in 1..Len(text) |-> table[text[k]]]))

\* A decode of four bytes with two different bytes in each channel.
C4_Witness ==
    /\ IsCall("Mt2GarbageTextPair", "decode")
    /\ call.res.ok
    /\ Len(call.arg) = 4
    /\ call.arg[1] # call.arg[3]
    /\ call.arg[2] # call.arg[4]

(***************************************************************************)
(* C5: MajinTenseiIIByte.decode of a one-byte buffer [b] returns the       *)
(* table's entry for b when b is a key of the table, and fails with a      *)
(* lookup error and no text when it is not; a table without an entry for   *)
(* every byte is loaded all the same.                                      *)
(***************************************************************************)
C5_TableDecode ==
    ( IsCall("MajinTenseiIIByte", "decode") /\ Len(call.arg) = 1 )
    => IF call.arg[1] \in DOMAIN table
       THEN call.res = Ok(table[call.arg[1]])
       ELSE /\ ~call.res.ok
            /\ call.res.err = "KeyError"
            /\ call.res.val = <<>>

\* A byte without an entry has been decoded under a table that lacks keys.
C5_Witness ==
    /\ IsCall("MajinTenseiIIByte", "decode")
    /\ Len(call.arg) = 1
    /\ DOMAIN table # Byte
    /\ call.arg[1] \notin DOMAIN table
    /\ ~call.res.ok

(***************************************************************************)
(* C6: MonospaceASCIIByte.decode of [b] is the character of code point b   *)
(* when that character is printable and the character of code point        *)
(* 256 + b otherwise, so two different bytes never decode to the same      *)
(* glyph.                                                                  *)
(***************************************************************************)
C6_MonospaceInjective ==
    [][ ( /\ call'.codec = "MonospaceASCIIByte"
          /\ call'.op = "decode"
          /\ Len(call'.arg) = 1 )
        => /\ call'.res = Ok(<<IF IsPrintable(call'.arg[1])
                                THEN call'.arg[1] ELSE 256 + call'.arg[1]>>)
           /\ ( /\ IsCall("MonospaceASCIIByte", "decode")
                /\ Len(call.arg) = 1
                /\ call.arg[1] # call'.arg[1] )
              => call'.res # call.res ]_vars

\* An unprintable byte has been decoded to a substituted glyph.
C6_Witness ==
    /\ IsCall("MonospaceASCIIByte", "decode")
    /\ Len(call.arg) = 1
    /\ ~IsPrintable(call.arg[1])
    /\ call.res.ok
    /\ call.res.val[1] >= 256

(***************************************************************************)
(* C7 as written: HexifySpaces.encode fails, with no bytes at all,         *)
(* whenever some whitespace-separated token is not one or two hexadecimal  *)
(* digits.                                                                 *)
(***************************************************************************)
C7_Original ==
    LET toks == Split(call.arg)
    IN  ( /\ IsCall("HexifySpaces", "encode")
          /\ \E k \in 1..Len(toks) :
                 ~(PlainHex(toks[k]) /\ Len(toks[k]) \in {1, 2}) )
        => ~call.res.ok /\ call.res.val = <<>>

\* The tokens the amended claim says are refused: a character that is no
\* digit, sign, x or underscore; digits of value above 255; a negative
\* number.
RefusedToken(t) ==
    \/ \E i \in 1..Len(t) :
           DigitValue(t[i]) < 0 /\ t[i] \notin {43, 45, 88, 95, 120}
    \/ PlainHex(t) /\ HexNumber(t) > 255
    \/ t[1] = 45 /\ PlainHex(Tail(t)) /\ HexNumber(Tail(t)) > 0

\* The digits of a token the amended claim says is accepted: digits alone,
\* digits after "+", digits after "0x"; <<>> for any other token.
AcceptedDigits(t) ==
    IF PlainHex(t) THEN t
    ELSE IF t[1] = 43 /\ PlainHex(Tail(t)) THEN Tail(t)
    ELSE IF Len(t) > 2 /\ t[1] = 48 /\ t[2] = 120 /\ PlainHex(Tail(Tail(t)))
    THEN Tail(Tail(t))
    ELSE <<>>

(***************************************************************************)
(* C7 as amended: HexifySpaces.encode fails with ValueError, with no bytes *)
(* at all, whenever some token holds a character that is no hex digit,     *)
(* sign, x or underscore, or is a run of hex digits of value above 255, or *)
(* is a negative number; a text whose tokens are runs of hex digits of     *)
(* value at most 255, of any length and with an optional "+" or "0x" in    *)
(* front, is encoded to the bytes of those values.                         *)
(***************************************************************************)
C7_InvalidHexToken ==
    LET toks == Split(call.arg)
    IN  IsCall("HexifySpaces", "encode")
        => /\ ~call.res.ok
              => call.res.val = <<>> /\ call.res.err = "ValueError"
           /\ (\E k \in 1..Len(toks) : RefusedToken(toks[k]))
              => ~call.res.ok
           /\ (\A k \in 1..Len(toks) :
                   /\ AcceptedDigits(toks[k]) # <<>>
                   /\ HexNumber(AcceptedDigits(toks[k])) <= 255)
              => call.res =
                   Ok([k \in 1..Len(toks) |->
                           HexNumber(AcceptedDigits(toks[k]))])

\* An encode has failed on a second token after a valid first one.
C7_Witness ==
    LET toks == Split(call.arg)
    IN  /\ IsCall("HexifySpaces", "encode")
        /\ Len(toks) = 2
        /\ PlainHex(toks[1])
        /\ Len(toks[1]) = 2
        /\ RefusedToken(toks[2])
        /\ ~call.res.ok

(***************************************************************************)
(* C8: encode on a decode-only codec (ASCII, MonospaceASCIIByte,           *)
(* MonospaceASCII, MajinTenseiIIByte, Mt2GarbageTextPair) fails with the   *)
(* unsupported-operation error for every text and returns no bytes, while  *)
(* no call of Hexify or HexifySpaces, encode or decode, is unsupported.    *)
(***************************************************************************)
C8_DecodeOnlyEncodeFails ==
    /\ ( /\ call.op = "encode"
         /\ call.codec \in {"ASCII", "MonospaceASCIIByte", "MonospaceASCII",
                            "MajinTenseiIIByte", "Mt2GarbageTextPair"} )
       => call.res = Raise("NotImplementedError")
    /\ call.codec \in {"Hexify", "HexifySpaces"}
       => call.res.err # "NotImplementedError"

\* encode has been called on the dual-channel codec with a non-empty text.
C8_Witness ==
    /\ IsCall("Mt2GarbageTextPair", "encode")
    /\ call.arg # <<>>
    /\ ~call.res.ok

(***************************************************************************)
(* C9: Hexify.decode writes two uppercase, zero-padded hexadecimal         *)
(* characters for every byte, in buffer order: the text is twice as long   *)
(* as the buffer and its i-th pair is the value of the i-th byte.          *)
(***************************************************************************)
C9_HexifyDecodePairs ==
    IsCall("Hexify", "decode")
    => /\ call.res.ok
       /\ Len(call.res.val) = 2 * Len(call.arg)
       /\ \A i \in 1..Len(call.arg) :
              /\ IsUpperHexChar(call.res.val[2 * i - 1])
              /\ IsUpperHexChar(call.res.val[2 * i])
              /\ 16 * DigitValue(call.res.val[2 * i - 1])
                   + DigitValue(call.res.val[2 * i]) = call.arg[i]

\* A buffer of several bytes, one of them below 16, has been decoded.
C9_Witness ==
    /\ IsCall("Hexify", "decode")
    /\ Len(call.arg) >= 3
    /\ \E i \in 1..Len(call.arg) : call.arg[i] < 16
    /\ \E i \in 1..Len(call.arg) : call.arg[i] >= 16
    /\ call.res.ok

(***************************************************************************)
(* C10: every call, the failing ones included, leaves the table and the    *)
(* registry as they were loaded, and a call repeated right after itself    *)
(* has the same outcome.                                                   *)
(***************************************************************************)
C10_CallsLeaveTableAndRegistry ==
    [][ /\ table' = table
        /\ names' = names
        /\ ( /\ call'.codec = call.codec
             /\ call'.op = call.op
             /\ call'.arg = call.arg )
           => call'.res = call.res ]_vars

\* A table lookup has failed and the table and registry are those loaded.
C10_Witness ==
    /\ call.codec \in {"MajinTenseiIIByte", "Mt2GarbageTextPair"}
    /\ call.res.err = "KeyError"
    /\ table \in HexmapDocuments
    /\ names = Registry

=============================================================================
